---- MODULE Spec2Model ----
(***************************************************************************)
(* A model of expenselm_mcp_server.py: six FastMCP tools, each of which    *)
(* builds query parameters, opens an httpx.AsyncClient, issues one GET     *)
(* with the EXPENSELM_API_KEY header and validates r.json() with pydantic. *)
(*                                                                         *)
(* Python values (tool arguments, the result of r.json(), query values)    *)
(* are tagged records: [t |-> "none"], [t |-> "str", v |-> s],             *)
(* [t |-> "num", v |-> n], [t |-> "list", v |-> <<...>>] and               *)
(* [t |-> "dict", v |-> f], f a function from keys to Python values.       *)
(* Numbers are integers; the sample strings are never numeric, so a str    *)
(* given to a float field is the case pydantic rejects.                    *)
(***************************************************************************)
EXTENDS Integers, Sequences, FiniteSets, TLC

VARIABLES apiKey, pc, call, client, clients, sent, response, outcome

vars == <<apiKey, pc, call, client, clients, sent, response, outcome>>

(***************************************************************************)
(* Bounds of the model.                                                    *)
(***************************************************************************)
MaxInvocations == 2
MaxRows == 2
MaxSkip == 1

(***************************************************************************)
(* Program constants.                                                      *)
(***************************************************************************)
_EXPENSELM_API_ENDPOINT == "https://api.expenselm.ai"
_EXPENSELM_TIMEOUT == 60
DefaultSkip == 0
DefaultLimit == 10
LimitGt == 0
LimitLe == 100

Invocations == 1..MaxInvocations

(***************************************************************************)
(* Python values.                                                          *)
(***************************************************************************)
PyNone == [t |-> "none"]
PyStr(s) == [t |-> "str", v |-> s]
PyNum(n) == [t |-> "num", v |-> n]
PyList(s) == [t |-> "list", v |-> s]
PyDict(f) == [t |-> "dict", v |-> f]

\* Python truthiness of an Optional[str] argument: None and "" are falsy.
Truthy(x) == x.t = "str" /\ x.v # ""

\* The outcome of a step: a value, or a raised exception.
Ok(v) == [ok |-> TRUE, val |-> v]
Raise(e) == [ok |-> FALSE, err |-> e]

Pending == [ok |-> FALSE, err |-> "pending"]
ValidationError == Raise("ValidationError")
JSONDecodeError == Raise("JSONDecodeError")
ConfigurationError == Raise("ValueError: EXPENSELM_API_KEY is not set")

(***************************************************************************)
(* The domain model: enums and pydantic field validation.                  *)
(***************************************************************************)
ExpenseImageType ==
    { [enum |-> "ExpenseImageType", name |-> n, value |-> n] :
        n \in {"Receipt", "Invoice", "Others"} }

ExpenseType ==
    { [enum |-> "ExpenseType", name |-> n, value |-> n] :
        n \in {"Standard", "Subscription"} }

EnumMember(members, n) == CHOOSE m \in members : m.name = n

\* str field: only a str is accepted (no coercion from numbers).
ValidateStr(x) == IF x.t = "str" THEN Ok(x.v) ELSE ValidationError

\* float field: a number is accepted.
ValidateFloat(x) == IF x.t = "num" THEN Ok(x.v) ELSE ValidationError

\* Enum field: the input must be the value of a member, compared exactly.
ValidateEnum(members, x) ==
    IF x.t = "str" /\ \E m \in members : m.value = x.v
    THEN Ok(CHOOSE m \in members : m.value = x.v)
    ELSE ValidationError

\* Validation of a value x against the declared type T, by the type's name.
RECURSIVE Validate(_, _)

\* A field declared Field(..., description): required.
Required(d, name, T) ==
    IF name \in DOMAIN d THEN Validate(T, d[name]) ELSE ValidationError

\* A field declared Field(default, description): the default when the key
\* is absent.
WithDefault(d, name, T, default) ==
    IF name \in DOMAIN d THEN Validate(T, d[name]) ELSE Ok(default)

\* Optional[T] = Field(None, description): None when absent or null.
OptionalField(d, name, T) ==
    IF name \notin DOMAIN d THEN Ok(PyNone)
    ELSE IF d[name].t = "none" THEN Ok(PyNone)
    ELSE Validate(T, d[name])

\* A model is built when every field validated; unknown keys are ignored.
BuildModel(r) ==
    IF \A f \in DOMAIN r : r[f].ok
    THEN Ok([f \in DOMAIN r |-> r[f].val])
    ELSE ValidationError

\* A faulty list validation: the elements that fail are dropped.
ValidateListSkipInvalid(T, x) ==
    IF x.t # "list" THEN ValidationError
    ELSE LET good == SelectSeq(x.v, LAMBDA e : Validate(T, e).ok)
         IN  Ok([k \in DOMAIN good |-> Validate(T, good[k]).val])

\* list[T]: every element is validated, in order; one failure fails the list.
ValidateList(T, x) ==
    IF x.t # "list" THEN ValidationError
    ELSE LET rs == [k \in DOMAIN x.v |-> Validate(T, x.v[k])]
         IN  IF \A k \in DOMAIN rs : rs[k].ok
             THEN Ok([k \in DOMAIN rs |-> rs[k].val])
             ELSE ValidationError

ValidateExpenseImage(x) ==
    IF x.t # "dict" THEN ValidationError
    ELSE BuildModel(
           [image_type |-> Required(x.v, "image_type", "ExpenseImageType"),
            image_file_name |-> Required(x.v, "image_file_name", "str")])

ValidateExpenseItem(x) ==
    IF x.t # "dict" THEN ValidationError
    ELSE BuildModel(
           [name |-> WithDefault(x.v, "name", "str", ""),
            quantity |-> WithDefault(x.v, "quantity", "float", 0),
            unit_price |-> WithDefault(x.v, "unit_price", "float", 0),
            subtotal |-> WithDefault(x.v, "subtotal", "float", 0)])

\* Faulty defaults of Expense: the category defaults to the empty string.
ExpenseDefaultsEmptyCategory ==
    [shop_name |-> "", shop_address |-> "", date |-> "",
     expense_category |-> "", currency |-> "", total_amount |-> 0,
     items |-> <<>>, expense_type |-> EnumMember(ExpenseType, "Standard"),
     remark |-> ""]

\* The declared defaults of Expense.
ExpenseDefaults ==
    [shop_name |-> "", shop_address |-> "", date |-> "",
     expense_category |-> "Misc", currency |-> "", total_amount |-> 0,
     items |-> <<>>, expense_type |-> EnumMember(ExpenseType, "Standard"),
     remark |-> ""]

ValidateExpense(x) ==
    IF x.t # "dict" THEN ValidationError
    ELSE LET d == x.v
             D == ExpenseDefaults
         IN BuildModel(
           [shop_name |-> WithDefault(d, "shop_name", "str", D.shop_name),
            shop_address |-> WithDefault(d, "shop_address", "str", D.shop_address),
            date |-> WithDefault(d, "date", "str", D.date),
            expense_category |-> WithDefault(d, "expense_category", "str", D.expense_category),
            currency |-> WithDefault(d, "currency", "str", D.currency),
            total_amount |-> WithDefault(d, "total_amount", "float", D.total_amount),
            items |-> WithDefault(d, "items", "list[ExpenseItem]", D.items),
            expense_type |-> WithDefault(d, "expense_type", "ExpenseType", D.expense_type),
            remark |-> WithDefault(d, "remark", "str", D.remark)])

ValidateExpenseImageData(x) ==
    IF x.t # "dict" THEN ValidationError
    ELSE BuildModel(
           [image |-> OptionalField(x.v, "image", "ExpenseImage"),
            expense |-> OptionalField(x.v, "expense", "Expense")])

ValidateExpenseRecord(x) ==
    IF x.t # "dict" THEN ValidationError
    ELSE BuildModel(
           [image |-> OptionalField(x.v, "image", "ExpenseImage"),
            expense |-> OptionalField(x.v, "expense", "Expense"),
            id |-> Required(x.v, "id", "str")])

ValidateMonthCurAmtStatItem(x) ==
    IF x.t # "dict" THEN ValidationError
    ELSE BuildModel(
           [month |-> Required(x.v, "month", "str"),
            currency |-> Required(x.v, "currency", "str"),
            total_amount |-> Required(x.v, "total_amount", "float")])

ValidateCategoryCurAmtStatItem(x) ==
    IF x.t # "dict" THEN ValidationError
    ELSE BuildModel(
           [category |-> Required(x.v, "category", "str"),
            currency |-> Required(x.v, "currency", "str"),
            total_amount |-> Required(x.v, "total_amount", "float")])

ValidateSubscriptionCurAmtStatItem(x) ==
    IF x.t # "dict" THEN ValidationError
    ELSE BuildModel(
           [subscription |-> Required(x.v, "subscription", "str"),
            currency |-> Required(x.v, "currency", "str"),
            total_amount |-> Required(x.v, "total_amount", "float")])

Validate(T, x) ==
    CASE T = "str" -> ValidateStr(x)
      [] T = "float" -> ValidateFloat(x)
      [] T = "ExpenseImageType" -> ValidateEnum(ExpenseImageType, x)
      [] T = "ExpenseType" -> ValidateEnum(ExpenseType, x)
      [] T = "ExpenseImage" -> ValidateExpenseImage(x)
      [] T = "ExpenseItem" -> ValidateExpenseItem(x)
      [] T = "list[ExpenseItem]" -> ValidateList("ExpenseItem", x)
      [] T = "Expense" -> ValidateExpense(x)
      [] T = "ExpenseImageData" -> ValidateExpenseImageData(x)
      [] T = "ExpenseRecord" -> ValidateExpenseRecord(x)
      [] T = "list[ExpenseRecord]" -> ValidateList("ExpenseRecord", x)
      [] T = "MonthCurAmtStatItem" -> ValidateMonthCurAmtStatItem(x)
      [] T = "list[MonthCurAmtStatItem]" ->
           ValidateList("MonthCurAmtStatItem", x)
      [] T = "CategoryCurAmtStatItem" -> ValidateCategoryCurAmtStatItem(x)
      [] T = "list[CategoryCurAmtStatItem]" ->
           ValidateList("CategoryCurAmtStatItem", x)
      [] T = "SubscriptionCurAmtStatItem" ->
           ValidateSubscriptionCurAmtStatItem(x)
      [] T = "list[SubscriptionCurAmtStatItem]" ->
           ValidateList("SubscriptionCurAmtStatItem", x)

(***************************************************************************)
(* The tool gateway.                                                       *)
(***************************************************************************)
ListTools == {"get_latest_expenses", "get_latest_subscription_expenses"}

SummaryTools ==
    {"get_expense_summary_by_month_by_currency",
     "get_expense_summary_by_category_by_currency",
     "get_expense_summary_by_subscription_by_currency"}

OptionalParams == {"from_date", "to_date", "text_input"}

\* api_endpoint of each tool.
ApiEndpoint(c) ==
    CASE c.op = "get_latest_expenses" ->
           _EXPENSELM_API_ENDPOINT \o "/expenses/"
      [] c.op = "get_expense_by_id" ->
           _EXPENSELM_API_ENDPOINT \o "/expenses/" \o c.args.id
      [] c.op = "get_latest_subscription_expenses" ->
           _EXPENSELM_API_ENDPOINT \o "/subscriptions/"
      [] c.op = "get_expense_summary_by_month_by_currency" ->
           _EXPENSELM_API_ENDPOINT \o "/stats/summary-by-month-by-currency"
      [] c.op = "get_expense_summary_by_category_by_currency" ->
           _EXPENSELM_API_ENDPOINT \o "/stats/summary-by-category-by-currency"
      [] c.op = "get_expense_summary_by_subscription_by_currency" ->
           _EXPENSELM_API_ENDPOINT \o "/stats/summary-by-subscription-by-currency"

\* A faulty selection: every optional argument is added, supplied or not.
IncludedOptionalsAlways(a) == OptionalParams

\* The optional arguments that `if from_date:` ... `if text_input:` add.
IncludedOptionals(a) == {k \in OptionalParams : Truthy(a[k])}

\* search_params of each tool (get_expense_by_id passes none).
SearchParams(c) ==
    CASE c.op \in ListTools ->
           [k \in {"skip", "limit"} \cup IncludedOptionals(c.args) |->
               IF k \in {"skip", "limit"} THEN PyNum(c.args[k]) ELSE c.args[k]]
      [] c.op \in SummaryTools ->
           [k \in {"from_date", "to_date"} |-> PyStr(c.args[k])]
      [] OTHER -> <<>>

\* A faulty lookup: an unset variable reads as the empty string.
GetApiKeyEmptyDefault ==
    IF apiKey.t = "none" THEN Ok("") ELSE Ok(apiKey.v)

\* os.getenv("EXPENSELM_API_KEY"), raising when it is None.
GetApiKey ==
    IF apiKey.t = "none" THEN ConfigurationError ELSE Ok(apiKey.v)

GetHeaders ==
    LET key == GetApiKey
    IN  IF key.ok THEN Ok([EXPENSELM_API_KEY |-> key.val]) ELSE key

\* httpx.AsyncClient(timeout=...): a new client object.
AsyncClient(timeout) == [open |-> TRUE, timeout |-> timeout]

\* A faulty construction: the client constructed last is used again.
SharedClientId == IF clients = <<>> THEN Len(clients) + 1 ELSE Len(clients)

\* The identity of the client an invocation constructs: a fresh object.
NewClientId == Len(clients) + 1

\* __aexit__ of `async with`: the client is closed.
AClose(cs, id) == [cs EXCEPT ![id].open = FALSE]

\* The GET that client.get(api_endpoint, headers=..., params=...) sends.
Request(c, headers, id) ==
    [method |-> "GET", url |-> ApiEndpoint(c), headers |-> headers,
     params |-> SearchParams(c), client |-> id]

\* r.json(): the body decoded, or JSONDecodeError. The status is not read.
RJson(r) ==
    IF r.body.text = "json" THEN Ok(r.body.value) ELSE JSONDecodeError

\* The JSON texts that occur as string values, and what they decode to.
JsonText ==
    [s \in {"{}", "{\"image\": null, \"expense\": null}", "[]"} |->
        CASE s = "{}" -> PyDict(<<>>)
          [] s = "[]" -> PyList(<<>>)
          [] OTHER -> PyDict([k \in {"image", "expense"} |-> PyNone])]

\* Model.model_validate_json(data): data must be str (or bytes) holding
\* the JSON text of a value of type T.
ModelValidateJson(T, x) ==
    IF x.t # "str" THEN ValidationError
    ELSE IF x.v \notin DOMAIN JsonText THEN ValidationError
    ELSE Validate(T, JsonText[x.v])

\* A faulty adapter: the validated list comes back in reverse order.
ValidatePythonReversed(T, x) ==
    LET r == Validate(T, x)
    IN  IF r.ok
        THEN Ok([k \in DOMAIN r.val |-> r.val[Len(r.val) + 1 - k]])
        ELSE r

\* TypeAdapter(T).validate_python(data).
ValidatePython(T, x) == Validate(T, x)

\* What each tool does with the response it received.
Translate(op, r) ==
    LET j == RJson(r)
    IN  IF ~j.ok THEN j
        ELSE CASE op \in ListTools ->
                    ValidatePython("list[ExpenseRecord]", j.val)
               [] op = "get_expense_by_id" ->
                    ModelValidateJson("ExpenseImageData", j.val)
               [] op = "get_expense_summary_by_month_by_currency" ->
                    ValidatePython("list[MonthCurAmtStatItem]", j.val)
               [] op = "get_expense_summary_by_category_by_currency" ->
                    ValidatePython("list[CategoryCurAmtStatItem]", j.val)
               [] op = "get_expense_summary_by_subscription_by_currency" ->
                    ValidatePython("list[SubscriptionCurAmtStatItem]", j.val)

NoCall == [op |-> "none", args |-> <<>>]
NoResponse == [kind |-> "none"]
Http(status, body) == [kind |-> "http", status |-> status, body |-> body]
JsonBody(v) == [text |-> "json", value |-> v]
HtmlBody == [text |-> "html"]

Init ==
    /\ apiKey \in {PyNone, PyStr("secret-key")}
    /\ pc = [i \in Invocations |-> "idle"]
    /\ call = [i \in Invocations |-> NoCall]
    /\ client = [i \in Invocations |-> 0]
    /\ clients = <<>>
    /\ sent = [i \in Invocations |-> <<>>]
    /\ response = [i \in Invocations |-> NoResponse]
    /\ outcome = [i \in Invocations |-> Pending]

\* Leaving the `async with` block with a value or an exception.
Exit(i, result) ==
    /\ clients' = AClose(clients, client[i])
    /\ outcome' = [outcome EXCEPT ![i] = result]
    /\ pc' = [pc EXCEPT ![i] = "done"]

\* The protocol layer calls a tool: the parameters are bound and the
\* `async with httpx.AsyncClient(...)` block is entered.
Invoke(i, c) ==
    /\ pc[i] = "idle"
    /\ call' = [call EXCEPT ![i] = c]
    /\ client' = [client EXCEPT ![i] = NewClientId]
    /\ clients' = Append(clients, AsyncClient(_EXPENSELM_TIMEOUT))
    /\ pc' = [pc EXCEPT ![i] = "entered"]
    /\ UNCHANGED <<apiKey, sent, response, outcome>>

\* client.get(...): its arguments are evaluated first, _get_headers() among
\* them; the request goes out only if that did not raise.
SendRequest(i) ==
    /\ pc[i] = "entered"
    /\ LET h == GetHeaders
       IN  IF h.ok
           THEN /\ sent' = [sent EXCEPT ![i] =
                               Append(@, Request(call[i], h.val, client[i]))]
                /\ pc' = [pc EXCEPT ![i] = "awaiting"]
                /\ UNCHANGED <<clients, outcome>>
           ELSE /\ Exit(i, h)
                /\ UNCHANGED sent
    /\ UNCHANGED <<apiKey, call, client, response>>

\* The awaited GET returns a response; it is decoded and validated.
ReceiveResponse(i, r) ==
    /\ pc[i] = "awaiting"
    /\ response' = [response EXCEPT ![i] = r]
    /\ Exit(i, Translate(call[i].op, r))
    /\ UNCHANGED <<apiKey, call, client, sent>>

\* The awaited GET raises (connection failure, timeout).
TransportFailure(i, e) ==
    /\ pc[i] = "awaiting"
    /\ response' = [response EXCEPT ![i] = [kind |-> "error", exc |-> e]]
    /\ Exit(i, Raise(e))
    /\ UNCHANGED <<apiKey, call, client, sent>>

TransportErrors == {"httpx.ConnectError", "httpx.ReadTimeout"}

(***************************************************************************)
(* The inputs: tool calls and remote responses, drawn from bounded sets.   *)
(***************************************************************************)
ListCall(op, skip, limit, from_date, to_date, text_input) ==
    [op |-> op,
     args |-> [skip |-> skip, limit |-> limit, from_date |-> from_date,
               to_date |-> to_date, text_input |-> text_input]]

ByIdCall(id) == [op |-> "get_expense_by_id", args |-> [id |-> id]]

SummaryCall(op, from_date, to_date) ==
    [op |-> op, args |-> [from_date |-> from_date, to_date |-> to_date]]

\* All sequences over S of length at most n.
SeqsUpTo(S, n) == UNION {[1..k -> S] : k \in 0..n}

Obj(keys, values) == PyDict([k \in keys |-> values[k]])

SampleImage ==
    PyDict([k \in {"image_type", "image_file_name"} |->
              IF k = "image_type" THEN PyStr("Receipt") ELSE PyStr("r1.jpg")])

SampleItem ==
    PyDict([k \in {"name", "quantity", "unit_price", "subtotal"} |->
              IF k = "name" THEN PyStr("Latte") ELSE PyNum(3)])

ExpenseFields ==
    {"shop_name", "shop_address", "date", "expense_category", "currency",
     "total_amount", "items", "expense_type", "remark"}

SampleExpenseValues ==
    [shop_name |-> PyStr("Cafe"), shop_address |-> PyStr("1 Main St"),
     date |-> PyStr("2024-01-15"), expense_category |-> PyStr("Food"),
     currency |-> PyStr("USD"), total_amount |-> PyNum(12),
     items |-> PyList(<<SampleItem, PyDict(<<>>)>>),
     expense_type |-> PyStr("Subscription"), remark |-> PyStr("weekly")]

\* Expense objects with every subset of the fields present.
PartialExpenses ==
    {Obj(S, SampleExpenseValues) : S \in SUBSET ExpenseFields}

\* A full Expense object with one field replaced.
ExpenseWith(f, x) ==
    PyDict([k \in ExpenseFields |-> IF k = f THEN x ELSE SampleExpenseValues[k]])

VariantExpenses ==
    {ExpenseWith("expense_type", PyStr(tag)) :
        tag \in {"Standard", "Recurring", "subscription", "STANDARD"}}
    \cup {ExpenseWith("expense_type", PyNum(1)),
          ExpenseWith("expense_type", PyNone),
          ExpenseWith("items", PyList(<<>>)),
          ExpenseWith("items", PyNone),
          ExpenseWith("items", PyList(<<PyStr("Latte")>>)),
          ExpenseWith("items", PyList(<<SampleItem, SampleItem>>)),
          ExpenseWith("total_amount", PyStr("twelve")),
          ExpenseWith("expense_category", PyNone),
          ExpenseWith("shop_name", PyNum(7))}

ExpenseJsons == PartialExpenses \cup VariantExpenses

RecordWith(id, expense) ==
    PyDict([k \in {"id", "image", "expense"} |->
              CASE k = "id" -> PyStr(id)
                [] k = "image" -> SampleImage
                [] OTHER -> expense])

\* Elements of a list response: two valid records, and invalid ones.
SampleRecords ==
    {RecordWith("e1", ExpenseWith("expense_type", PyStr("Standard"))),
     PyDict([k \in {"id"} |-> PyStr("e2")]),
     RecordWith("e3", ExpenseWith("expense_type", PyStr("Recurring"))),
     PyDict([k \in {"image"} |-> PyNone])}

StatKey(op) ==
    CASE op = "get_expense_summary_by_month_by_currency" -> "month"
      [] op = "get_expense_summary_by_category_by_currency" -> "category"
      [] op = "get_expense_summary_by_subscription_by_currency" -> "subscription"

StatRow(op, key, currency, amount) ==
    PyDict([k \in {StatKey(op), "currency", "total_amount"} |->
              CASE k = "currency" -> PyStr(currency)
                [] k = "total_amount" -> amount
                [] OTHER -> PyStr(key)])

SampleRows(op) ==
    {StatRow(op, "2024-01", "USD", PyNum(120)),
     StatRow(op, "2024-01", "EUR", PyNum(80)),
     StatRow(op, "2024-02", "USD", PyNum(120)),
     StatRow(op, "2024-03", "USD", PyStr("n/a")),
     PyDict([k \in {"currency", "total_amount"} |->
               IF k = "currency" THEN PyStr("USD") ELSE PyNum(5)])}

ImageDataJsons ==
    {Obj(S, [image |-> x, expense |-> y]) :
        S \in SUBSET {"image", "expense"},
        x \in {PyNone, SampleImage},
        y \in {PyNone, ExpenseWith("expense_type", PyStr("Standard")),
               ExpenseWith("expense_type", PyStr("Recurring"))}}

Statuses == {200, 201, 404, 500}

IsSuccess(status) == status \in 200..299

\* The small inputs of the concurrent specification.
SmallCalls ==
    {ListCall(op, DefaultSkip, DefaultLimit, PyNone, PyNone, PyNone) :
        op \in ListTools}
    \cup {ByIdCall("abc123")}
    \cup {SummaryCall(op, "2024-01-01", "2024-03-31") : op \in SummaryTools}

\* A success with a body of the tool's shape, a 404 whose body is itself
\* acceptable to the tool's validation, and a 500 with an HTML body.
SmallResponses(op) ==
    CASE op \in ListTools ->
           {Http(200, JsonBody(PyList(<<RecordWith("e1", PyNone)>>))),
            Http(404, JsonBody(PyList(<<>>))),
            Http(500, HtmlBody)}
      [] op = "get_expense_by_id" ->
           {Http(200, JsonBody(PyDict([k \in {"image", "expense"} |-> PyNone]))),
            Http(404, JsonBody(PyStr("{}"))),
            Http(500, HtmlBody)}
      [] OTHER ->
           {Http(200, JsonBody(PyList(<<StatRow(op, "2024-01", "USD", PyNum(120))>>))),
            Http(404, JsonBody(PyList(<<>>))),
            Http(500, HtmlBody)}

\* The rich inputs of the single-invocation specification.
Limits ==
    {LimitGt - 1, LimitGt, LimitGt + 1, DefaultLimit, LimitLe, LimitLe + 1}

RichCalls ==
    {ListCall(op, skip, limit, f, t, x) :
        op \in ListTools, skip \in 0..MaxSkip, limit \in Limits,
        f \in {PyNone, PyStr(""), PyStr("2024-01-01")},
        t \in {PyNone, PyStr(""), PyStr("2024-03-31")},
        x \in {PyNone, PyStr(""), PyStr("coffee")}}
    \cup {ByIdCall(id) : id \in {"abc123", "e1"}}
    \cup {SummaryCall(op, f, t) :
            op \in SummaryTools, f \in {"2024-01-01", "01/01/2024"},
            t \in {"2024-03-31"}}

RichBodies(op) ==
    CASE op \in ListTools ->
           {JsonBody(PyList(s)) : s \in SeqsUpTo(SampleRecords, MaxRows)}
           \cup {JsonBody(PyList(<<RecordWith("e9", e)>>)) : e \in ExpenseJsons}
           \cup {JsonBody(PyDict(<<>>)), HtmlBody}
      [] op = "get_expense_by_id" ->
           {JsonBody(x) : x \in ImageDataJsons}
           \cup {JsonBody(PyStr(s)) : s \in DOMAIN JsonText \cup {"abc123"}}
           \cup {JsonBody(PyNone), HtmlBody}
      [] OTHER ->
           {JsonBody(PyList(s)) : s \in SeqsUpTo(SampleRows(op), MaxRows)}
           \cup {JsonBody(PyNone), HtmlBody}

\* Translate reads the tool's name and the response, never the arguments:
\* the rich responses go to the calls with default arguments, the small
\* responses to the calls with rich arguments.
RichResponses(c) ==
    IF c \in SmallCalls
    THEN {Http(s, b) : s \in Statuses, b \in RichBodies(c.op)}
    ELSE SmallResponses(c.op)

(***************************************************************************)
(* Specifications.                                                         *)
(***************************************************************************)
\* Any number of invocations in flight, interleaved at their awaits.
Next ==
    \E i \in Invocations :
        \/ \E c \in SmallCalls : Invoke(i, c)
        \/ SendRequest(i)
        \/ /\ pc[i] = "awaiting"
           /\ \E r \in SmallResponses(call[i].op) : ReceiveResponse(i, r)
        \/ \E e \in TransportErrors : TransportFailure(i, e)

Spec == Init /\ [][Next]_vars

\* One invocation, over the rich arguments and responses.
NextRich ==
    \/ \E c \in RichCalls \cup SmallCalls : Invoke(1, c)
    \/ SendRequest(1)
    \/ /\ pc[1] = "awaiting"
       /\ \E r \in RichResponses(call[1]) : ReceiveResponse(1, r)
    \/ \E e \in TransportErrors : TransportFailure(1, e)

SpecRich == Init /\ [][NextRich]_vars

(***************************************************************************)
(* Properties.                                                             *)
(***************************************************************************)
Done(i) == pc[i] = "done"

GotHttp(i) == Done(i) /\ response[i].kind = "http"

GotJson(i) == GotHttp(i) /\ response[i].body.text = "json"

GotList(i) == GotJson(i) /\ response[i].body.value.t = "list"

\* C1: with EXPENSELM_API_KEY unset, an invocation of any of the six tools
\* that got past entering its client block has ended in the configuration
\* error, and it has sent no HTTP request.
C1_MissingKeyRaisesBeforeRequest ==
    \A i \in Invocations :
        apiKey = PyNone =>
            /\ sent[i] = <<>>
            /\ pc[i] \in {"idle", "entered", "done"}
            /\ Done(i) => outcome[i] = ConfigurationError

\* C1 witness: a summary tool invoked without the key has ended in the
\* configuration error, with nothing sent.
C1_Witness ==
    \E i \in Invocations :
        /\ apiKey = PyNone
        /\ Done(i)
        /\ call[i].op = "get_expense_summary_by_subscription_by_currency"
        /\ outcome[i] = ConfigurationError
        /\ sent[i] = <<>>

\* C2 (as claimed): a list tool called with limit <= 0 or limit > 100 fails
\* local validation and sends no request.
C2_LimitValidatedLocally ==
    \A i \in Invocations :
        (/\ call[i].op \in ListTools
         /\ call[i].args.limit \notin (LimitGt + 1)..LimitLe)
        => /\ sent[i] = <<>>
           /\ Done(i) => ~outcome[i].ok

\* C3 (as claimed): a response with a non-2xx status ends the invocation in
\* a failure that carries the status code, never in a result.
C3_NonSuccessStatusFails ==
    \A i \in Invocations :
        (GotHttp(i) /\ ~IsSuccess(response[i].status))
        => /\ ~outcome[i].ok
           /\ "status" \in DOMAIN outcome[i]
           /\ outcome[i].status = response[i].status

\* C4 (as claimed): get_expense_by_id, answered with a success status and a
\* JSON object that conforms to ExpenseImageData, returns the record with
\* the image and the expense of that object.
C4_GetExpenseByIdReturnsRecord ==
    \A i \in Invocations :
        (/\ GotJson(i)
         /\ call[i].op = "get_expense_by_id"
         /\ IsSuccess(response[i].status)
         /\ response[i].body.value.t = "dict"
         /\ ValidateExpenseImageData(response[i].body.value).ok)
        => outcome[i] = ValidateExpenseImageData(response[i].body.value)

\* C5: for get_latest_expenses with limit in [1,100] and skip >= 0, the
\* query of the request holds skip and limit with the supplied values, holds
\* from_date, to_date or text_input only when that argument was supplied
\* (not None) and then with the supplied value, and holds nothing else.
C5_QueryHoldsSuppliedParameters ==
    \A i \in Invocations :
        (/\ call[i].op = "get_latest_expenses"
         /\ call[i].args.limit \in (LimitGt + 1)..LimitLe
         /\ call[i].args.skip >= 0
         /\ sent[i] # <<>>)
        => LET q == sent[i][1].params
               a == call[i].args
           IN  /\ DOMAIN q \subseteq {"skip", "limit"} \cup OptionalParams
               /\ {"skip", "limit"} \subseteq DOMAIN q
               /\ q["skip"] = PyNum(a.skip)
               /\ q["limit"] = PyNum(a.limit)
               /\ \A k \in OptionalParams :
                     k \in DOMAIN q => a[k] # PyNone /\ q[k] = a[k]

\* C5 witness: a request with limit 100 whose query holds from_date, which
\* was supplied, and neither to_date nor text_input, which were omitted.
C5_Witness ==
    \E i \in Invocations :
        /\ call[i].op = "get_latest_expenses"
        /\ sent[i] # <<>>
        /\ call[i].args.limit = LimitLe
        /\ call[i].args.to_date = PyNone
        /\ call[i].args.text_input = PyNone
        /\ DOMAIN sent[i][1].params = {"skip", "limit", "from_date"}
        /\ sent[i][1].params["from_date"] = PyStr("2024-01-01")

\* An element whose expense carries an expense_type string that is not
\* exactly one of the two tags.
HasUnknownExpenseType(x) ==
    /\ x.t = "dict"
    /\ "expense" \in DOMAIN x.v
    /\ x.v["expense"].t = "dict"
    /\ "expense_type" \in DOMAIN x.v["expense"].v
    /\ x.v["expense"].v["expense_type"].t = "str"
    /\ x.v["expense"].v["expense_type"].v \notin {"Standard", "Subscription"}

\* C6: a list tool whose response array holds an element that fails
\* validation, at any position, ends in a validation error: no list of the
\* valid elements is returned.
C6_InvalidElementFailsBatch ==
    \A i \in Invocations :
        (/\ GotList(i)
         /\ call[i].op \in ListTools
         /\ \E k \in DOMAIN response[i].body.value.v :
               \/ ~ValidateExpenseRecord(response[i].body.value.v[k]).ok
               \/ HasUnknownExpenseType(response[i].body.value.v[k]))
        => outcome[i] = ValidationError

\* C6 witness: a valid record followed by one whose expense_type is
\* "Recurring"; the invocation ended in the validation error.
C6_Witness ==
    \E i \in Invocations :
        /\ GotList(i)
        /\ call[i].op \in ListTools
        /\ Len(response[i].body.value.v) = 2
        /\ ValidateExpenseRecord(response[i].body.value.v[1]).ok
        /\ HasUnknownExpenseType(response[i].body.value.v[2])
        /\ outcome[i] = ValidationError

\* What an ExpenseItem object is to become, field by field.
ExpectedItem(x) ==
    [f \in {"name", "quantity", "unit_price", "subtotal"} |->
        IF f \in DOMAIN x.v THEN x.v[f].v
        ELSE IF f = "name" THEN "" ELSE 0]

\* What field f of an Expense object e is to become: the value present, or
\* the declared default.
ExpectedExpenseField(e, f) ==
    IF f \in DOMAIN e.v
    THEN CASE f = "items" ->
                [k \in DOMAIN e.v[f].v |-> ExpectedItem(e.v[f].v[k])]
           [] f = "expense_type" ->
                [enum |-> "ExpenseType", name |-> e.v[f].v, value |-> e.v[f].v]
           [] OTHER -> e.v[f].v
    ELSE CASE f = "items" -> <<>>
           [] f = "expense_category" -> "Misc"
           [] f = "expense_type" ->
                [enum |-> "ExpenseType", name |-> "Standard", value |-> "Standard"]
           [] f = "total_amount" -> 0
           [] OTHER -> ""

\* An object that matches the Expense schema: every field present has the
\* declared type, and expense_type one of the two tags.
MatchesExpenseSchema(e) ==
    /\ e.t = "dict"
    /\ \A f \in DOMAIN e.v \cap ExpenseFields :
          CASE f = "total_amount" -> e.v[f].t = "num"
            [] f = "items" ->
                 /\ e.v[f].t = "list"
                 /\ \A k \in DOMAIN e.v[f].v :
                       /\ e.v[f].v[k].t = "dict"
                       /\ \A g \in DOMAIN e.v[f].v[k].v :
                             e.v[f].v[k].v[g].t = IF g = "name" THEN "str" ELSE "num"
            [] f = "expense_type" ->
                 e.v[f] \in {PyStr("Standard"), PyStr("Subscription")}
            [] OTHER -> e.v[f].t = "str"

\* The record at position k of a list response carries an Expense object.
CarriesExpense(i, k) ==
    /\ response[i].body.value.v[k].t = "dict"
    /\ "expense" \in DOMAIN response[i].body.value.v[k].v
    /\ response[i].body.value.v[k].v["expense"].t = "dict"

\* The record x with its expense key removed.
WithoutExpense(x) == PyDict([k \in DOMAIN x.v \ {"expense"} |-> x.v[k]])

\* A record whose expense, when it carries one, matches the Expense schema,
\* and which is a valid record otherwise.
RecordWithMatchingExpense(x) ==
    /\ x.t = "dict"
    /\ ValidateExpenseRecord(WithoutExpense(x)).ok
    /\ ("expense" \in DOMAIN x.v) =>
          (x.v["expense"] = PyNone \/ MatchesExpenseSchema(x.v["expense"]))

\* C7: an Expense object that matches the schema validates, and a validated
\* Expense has, for every field, the value present in the JSON (the
\* expense_type tag as the enum member, the items in order) or, when the
\* field is absent, its declared default.
C7_ExpenseRoundTrip ==
    \A i \in Invocations :
        (GotList(i) /\ call[i].op \in ListTools)
        => /\ (\A k \in DOMAIN response[i].body.value.v :
                  RecordWithMatchingExpense(response[i].body.value.v[k]))
              => outcome[i].ok
           /\ outcome[i].ok
              => (\A k \in DOMAIN response[i].body.value.v :
                    CarriesExpense(i, k)
                    => (\A f \in ExpenseFields :
                          outcome[i].val[k].expense[f] =
                            ExpectedExpenseField(
                              response[i].body.value.v[k].v["expense"], f)))

\* C7 witness: an object with expense_type "Subscription" and neither items
\* nor expense_category was validated into a record with the enum member,
\* no items and the category "Misc".
C7_Witness ==
    \E i \in Invocations :
        /\ GotList(i)
        /\ call[i].op \in ListTools
        /\ outcome[i].ok
        /\ Len(outcome[i].val) = 1
        /\ CarriesExpense(i, 1)
        /\ DOMAIN response[i].body.value.v[1].v["expense"].v =
              {"expense_type", "total_amount", "shop_name"}
        /\ outcome[i].val[1].expense.expense_type.name = "Subscription"
        /\ outcome[i].val[1].expense.items = <<>>
        /\ outcome[i].val[1].expense.expense_category = "Misc"
        /\ outcome[i].val[1].expense.total_amount = 12

\* A row of the month summary: month and currency strings and a numeric
\* total_amount.
IsMonthRow(x) ==
    /\ x.t = "dict"
    /\ {"month", "currency", "total_amount"} \subseteq DOMAIN x.v
    /\ x.v["month"].t = "str"
    /\ x.v["currency"].t = "str"
    /\ x.v["total_amount"].t = "num"

\* C8: get_expense_summary_by_month_by_currency, answered with a success
\* status and an array of n month rows, succeeds with n items, item k
\* carrying the month, currency and total_amount of row k; an empty array
\* gives a successful empty sequence.
C8_MonthSummaryPreservesRows ==
    \A i \in Invocations :
        (/\ GotList(i)
         /\ call[i].op = "get_expense_summary_by_month_by_currency"
         /\ IsSuccess(response[i].status)
         /\ \A k \in DOMAIN response[i].body.value.v :
               IsMonthRow(response[i].body.value.v[k]))
        => LET rows == response[i].body.value.v
           IN  /\ outcome[i].ok
               /\ Len(outcome[i].val) = Len(rows)
               /\ \A k \in DOMAIN rows :
                     /\ outcome[i].val[k].month = rows[k].v["month"].v
                     /\ outcome[i].val[k].currency = rows[k].v["currency"].v
                     /\ outcome[i].val[k].total_amount = rows[k].v["total_amount"].v

\* C8 witness: two rows, the later month first, came back as two items in
\* that order with their amounts.
C8_Witness ==
    \E i \in Invocations :
        /\ GotList(i)
        /\ call[i].op = "get_expense_summary_by_month_by_currency"
        /\ IsSuccess(response[i].status)
        /\ outcome[i].ok
        /\ Len(outcome[i].val) = 2
        /\ outcome[i].val[1].month = "2024-02"
        /\ outcome[i].val[2].month = "2024-01"
        /\ outcome[i].val[2].currency = "EUR"
        /\ outcome[i].val[2].total_amount = 80

\* The invocation met a failure: the GET raised, the remote answered with a
\* non-2xx status, or the body failed decoding or validation.
MetFailure(i) ==
    \/ response[i].kind = "error"
    \/ /\ response[i].kind = "http"
       /\ \/ ~IsSuccess(response[i].status)
          \/ ~Translate(call[i].op, response[i]).ok

\* C9 (as claimed): an invocation issues at most one GET, and after a
\* timeout, transport failure, remote error or validation failure it ends in
\* that failure, never in a result.
C9_SingleGetFailurePropagates ==
    \A i \in Invocations :
        /\ Len(sent[i]) <= 1
        /\ (Done(i) /\ MetFailure(i)) => ~outcome[i].ok

\* The outcome an invocation is to have, from its own call, the credential
\* and its own response.
OwnOutcome(i) ==
    IF apiKey = PyNone THEN ConfigurationError
    ELSE IF response[i].kind = "error" THEN Raise(response[i].exc)
    ELSE Translate(call[i].op, response[i])

\* C10: every invocation that has started holds a client of its own, which
\* is open while the invocation runs and closed once it has finished, on
\* every exit path; its request went through that client; and its outcome
\* is the one its own call, the credential and its own response give.
C10_OwnClientClosedOnExit ==
    \A i \in Invocations :
        pc[i] # "idle" =>
            /\ client[i] \in DOMAIN clients
            /\ \A j \in Invocations \ {i} : pc[j] # "idle" => client[j] # client[i]
            /\ clients[client[i]].open = (pc[i] # "done")
            /\ \A k \in DOMAIN sent[i] : sent[i][k].client = client[i]
            /\ Done(i) => outcome[i] = OwnOutcome(i)

\* C10 witness: two invocations were in flight together; one has finished
\* with a validation error and its client is closed, the other still awaits
\* its response on its own open client.
C10_Witness ==
    \E i, j \in Invocations :
        /\ i # j
        /\ Done(i)
        /\ outcome[i] = ValidationError
        /\ ~clients[client[i]].open
        /\ pc[j] = "awaiting"
        /\ clients[client[j]].open
        /\ client[i] > client[j]

====
